---------------------------- MODULE Spec2Model ----------------------------
(***************************************************************************)
(* Verification model of sanzeev.com.np: the build-time image shortcode    *)
(* (eleventy.config.images.js), the lazy video loader (inline script of    *)
(* _includes/layouts/base.njk) and the copy-to-clipboard widget            *)
(* (public/js/code-copy.js).                                               *)
(*                                                                         *)
(* The three components share no state.  Each has its own specification    *)
(* (SpecImage, SpecVideo, SpecCopy) that starts the other two in their     *)
(* empty state (no invocation, a page without videos, a page without code  *)
(* blocks) and never moves them; Spec composes all three.                  *)
(***************************************************************************)
EXTENDS Integers, Sequences, FiniteSets, Bags, TLC

VARIABLES
    \* ---- image shortcode (build time, one page) ----
    ogImage,        \* this.page.ogImage
    invocations,    \* number of imageShortcode calls made by the page's template
    pending,        \* bag of invocations suspended at `await eleventyImage(...)`
    lastDone,       \* the most recently settled invocation: arguments, request, outcome
    requests,       \* number of eleventyImage() calls made so far
    pathCalls,      \* relativeToInputPath calls compared: [inputPath, src, file]
    orderRuns,      \* two invocations completed in both orders: the two outcomes
    phase,          \* the page's render pass: "content", "failed", "rendered", "layout"
    head,           \* the og:image meta element the layout has emitted
    \* ---- lazy video loader (browser) ----
    hasIO,          \* "IntersectionObserver" in window
    domReady,       \* the DOMContentLoaded handler has run
    videos,         \* video element -> [lazy, children, loads, ops]
    observer,       \* lazyVideoObserver was constructed
    observed,       \* the observer's observation targets
    prevInt,        \* per target: the isIntersecting value of its last queued entry
    queued,         \* the observer's queued entries, not yet delivered
    videoError,     \* the DOMContentLoaded handler or the observer callback threw
    observeCalls,   \* video -> observe() calls made with it as the target
    \* ---- copy widget (browser) ----
    hasClipboard,   \* navigator.clipboard is defined
    scriptRun,      \* code-copy.js has been evaluated
    dom,            \* the children of the content container, in document order
    label,          \* block -> button.innerHTML of its trigger
    writes,         \* block -> clipboard writes in flight (texts, oldest first)
    timers,         \* block -> deadlines of its pending setTimeout callbacks
    clipLog,        \* every navigator.clipboard.writeText call so far: <<block, text>>
    clicks,         \* block -> number of activations of its trigger
    errors,         \* block -> rejections of its click handler so far
    rejected,       \* block -> clipboard writes the browser has rejected so far
    now             \* browser clock, ms

imageVars == <<ogImage, invocations, pending, lastDone, requests, pathCalls,
               orderRuns, phase, head>>
videoVars == <<hasIO, domReady, videos, observer, observed, prevInt, queued,
               videoError, observeCalls>>
copyVars  == <<hasClipboard, scriptRun, dom, label, writes, timers, clipLog,
               clicks, errors, rejected, now>>
vars == <<imageVars, videoVars, copyVars>>

(***************************************************************************)
(* JavaScript values that reach the code as arguments.                     *)
(***************************************************************************)
Undefined == [t |-> "undefined"]
Null      == [t |-> "null"]
Str(s)    == [t |-> "string", s |-> s]
Arr(l)    == [t |-> "array", l |-> l]

\* ToBoolean for the values above: undefined, null and "" are falsy; every
\* array (the empty one included) and every non-empty string is truthy.
Truthy(v) == \/ v.t = "array"
             \/ v.t = "string" /\ v.s # ""

\* `a || b`
OrElseNonEmpty(a, b) == IF Truthy(a) /\ (a.t = "array" => a.l # <<>>) THEN a ELSE b
OrElse(a, b) == IF Truthy(a) THEN a ELSE b


(***************************************************************************)
(*                 IMAGE SHORTCODE  (eleventy.config.images.js)            *)
(***************************************************************************)
MaxInvocations == 2 \* image shortcode calls in one page's template
MaxPathCalls == 2   \* paths resolved side by side when resolution is compared
MaxVariants == 2    \* longest webp variant list the image library returns

OgWidth  == 1200
OgHeight == 627

(* Paths.  A path string is the sequence of its pieces: the separator "/"  *)
(* and the names between separators ("." and ".." among them).            *)
PathSep == "/"

\* process.cwd() of the build, an absolute path
Cwd == <<"/", "site">>

\* str.split("/"): the pieces between separators, empty ones included
RECURSIVE Split(_, _)
Split(str, sep) ==
    IF \A i \in DOMAIN str : str[i] # sep THEN <<str>>
    ELSE LET k == CHOOSE i \in DOMAIN str :
                     str[i] = sep /\ \A j \in 1..(i - 1) : str[j] # sep
         IN  <<SubSeq(str, 1, k - 1)>> \o Split(SubSeq(str, k + 1, Len(str)), sep)

\* split.pop()
Pop(split) == SubSeq(split, 1, Len(split) - 1)

\* split.join(sep)
RECURSIVE Join(_, _)
Join(split, sep) ==
    IF split = <<>> THEN <<>>
    ELSE IF Len(split) = 1 THEN split[1]
    ELSE split[1] \o <<sep>> \o Join(Tail(split), sep)

\* normalisation of path.resolve: empty and "." pieces are dropped, ".."
\* drops the piece before it (at the root it is dropped itself)
RECURSIVE Normalize(_, _)
Normalize(done, rest) ==
    IF rest = <<>> THEN done
    ELSE LET piece == Head(rest)
         IN  IF piece = <<>> \/ piece = <<".">>
             THEN Normalize(done, Tail(rest))
             ELSE IF piece = <<"..">>
             THEN Normalize(IF done = <<>> THEN done ELSE Pop(done), Tail(rest))
             ELSE Normalize(Append(done, piece), Tail(rest))

IsAbsolute(str) == str # <<>> /\ str[1] = PathSep

\* path.resolve(from, to): the arguments are taken from the right until an
\* absolute one is met, the working directory is put in front if none is,
\* and the result is normalised
PathResolve(from, to) ==
    LET joined == IF IsAbsolute(to) THEN to
                  ELSE IF IsAbsolute(from) THEN from \o <<PathSep>> \o to
                  ELSE Cwd \o <<PathSep>> \o from \o <<PathSep>> \o to
    IN  <<PathSep>> \o Join(Normalize(<<>>, Split(joined, PathSep)), PathSep)

\* relativeToInputPath with the last piece of the input path kept
relativeToInputPathUnpopped(inputPath, relativeFilePath) ==
    PathResolve(Join(Split(inputPath, "/"), PathSep), relativeFilePath)
relativeToInputPath(inputPath, relativeFilePath) ==
    LET split == Pop(Split(inputPath, "/"))
    IN  PathResolve(Join(split, PathSep), relativeFilePath)

\* input paths of content files as the build tool reports them
InputPaths ==
    { <<".", "/", "blog", "/", "observer.md">>,
      <<".", "/", "blog", "/", "observer", "/", "index.md">>,
      <<".", "/", "blog", "/", "proxy", "/", "index.md">>,
      <<".", "/", "about", "/", "index.md">>,
      <<".", "/", "index.md">> }

\* relative source references
SourceRefs ==
    { <<"cover.png">>,
      <<".", "/", "cover.png">>,
      <<"img", "/", "cover.png">>,
      <<"..", "/", "cover.png">>,
      <<"..", "/", "img", "/", "cover.png">> }

\* this.page.inputPath of the page the image shortcode is rendered for
PageInputPath == <<".", "/", "blog", "/", "observer", "/", "index.md">>

\* Calls as the articles make them, `image src, title` and
\* `image src, alt, null, null, caption`, and calls with a widths list, a
\* null caption, an empty caption and an empty widths list.
ImageCall(widths, sizes, caption) ==
    [src |-> <<"cover.png">>, alt |-> Str("title"), widths |-> widths,
     sizes |-> sizes, caption |-> caption]
ImageArgs ==
    { ImageCall(Undefined, Undefined, Undefined),
      ImageCall(Null, Null, Str("Observer Pattern")),
      ImageCall(Arr(<<"600", "1200">>), Str("100vw"), Undefined),
      ImageCall(Arr(<<>>), Undefined, Str("Observer Pattern")),
      ImageCall(Null, Null, Null),
      ImageCall(Null, Null, Str("")) }

\* Variants the image library may report: two of the canonical size (of two
\* different files), one too narrow, one too tall.
Variants ==
    { [width |-> 1200, height |-> 627, url |-> "/img/a-1200.webp"],
      [width |-> 1200, height |-> 627, url |-> "/img/b-1200.webp"],
      [width |-> 600,  height |-> 627, url |-> "/img/c-600.webp"],
      [width |-> 1200, height |-> 630, url |-> "/img/d-1200.webp"] }

SeqsUpTo(S, n) == UNION { [1..k -> S] : k \in 0..n }

\* What `await eleventyImage(...)` can resolve to.  The library is external:
\* any variant list is possible.
Metadatas == { [webp |-> l] : l \in SeqsUpTo(Variants, MaxVariants) }

\* the options object handed to eleventyImage()
ImageRequestWebpOnly(args) ==
    [ widths    |-> OrElse(args.widths, Arr(<<"auto">>)),
      formats   |-> <<"webp">>,
      animated  |-> TRUE,
      outputDir |-> <<"dir.output", "img">> ]
ImageRequest(args) ==
    [ widths    |-> OrElse(args.widths, Arr(<<"auto">>)),
      formats   |-> <<"webp", "auto">>,
      animated  |-> TRUE,
      outputDir |-> <<"dir.output", "img">> ]

\* const coverImage = metadata.webp?.[0]
HasCoverImage(metadata) == Len(metadata.webp) > 0
CoverImage(metadata)    == metadata.webp[1]

\* the `if (coverImage && ...)` test
IsOgCandidate(metadata) ==
    /\ HasCoverImage(metadata)
    /\ CoverImage(metadata).width = OgWidth
    /\ CoverImage(metadata).height = OgHeight

\* this.page.ogImage after the `if` statement
OgImageAfterAnySize(og, metadata) ==
    IF HasCoverImage(metadata) THEN Str(CoverImage(metadata).url) ELSE og
OgImageAfterClearing(og, metadata) ==
    IF IsOgCandidate(metadata) THEN Str(CoverImage(metadata).url) ELSE Undefined
OgImageAfter(og, metadata) ==
    IF IsOgCandidate(metadata) THEN Str(CoverImage(metadata).url) ELSE og

ImageAttributesEager(args) ==
    [ alt |-> args.alt, sizes |-> args.sizes,
      loading |-> "eager", decoding |-> "async" ]
ImageAttributes(args) ==
    [ alt |-> args.alt, sizes |-> args.sizes,
      loading |-> "lazy", decoding |-> "async" ]

\* eleventyImage.generateHTML(metadata, imageAttributes): markup of the
\* library, kept as the pair it is generated from
GenerateHTML(metadata, attributes) ==
    [ metadata |-> metadata, attributes |-> attributes ]

\* the pieces of the returned template literal: markup written in the
\* template, interpolated text, and the library's markup (GenerateHTML)
Tag(s)  == [tag |-> s]
Text(s) == [text |-> s]

\* the template literals of the return statement, piece by piece
FragmentAlwaysFigure(caption, eleventyImageOutput) ==
    << Tag("<figure>"), eleventyImageOutput, Tag("<figcaption>"),
       Text(IF caption.t = "string" THEN caption.s ELSE caption.t),
       Tag("</figcaption>"), Tag("</figure>") >>
Fragment(caption, eleventyImageOutput) ==
    IF Truthy(caption)
    THEN << Tag("<figure>"), eleventyImageOutput,
            Tag("<figcaption>"), Text(caption.s), Tag("</figcaption>"),
            Tag("</figure>") >>
    ELSE << Tag("<div class='no-caption'>"), eleventyImageOutput, Tag("</div>") >>

\* how the shortcode's promise settles when `await eleventyImage(...)`
\* throws: nothing catches the error
ImageFailureFallback(error) ==
    [ outcome |-> "returned",
      fragment |-> << Tag("<div class='no-caption'>"), Text("fallback image"),
                      Tag("</div>") >> ]
ImageFailure(error) == [ outcome |-> "thrown", error |-> error ]

NotSettled == [library |-> "none"]

\* imageShortcode up to its await: the request is issued, the invocation
\* is suspended
ImageInvoke(args) ==
    /\ phase = "content"
    /\ invocations < MaxInvocations
    /\ invocations' = invocations + 1
    /\ requests' = requests + 1
    /\ pending' = pending (+) SetToBag({[ args    |-> args,
                                          file    |-> relativeToInputPath(PageInputPath, args.src),
                                          request |-> ImageRequest(args) ]})
    /\ UNCHANGED <<ogImage, lastDone, pathCalls, orderRuns, phase, head,
                   videoVars, copyVars>>

\* the library call resolves with `metadata`, generateHTML succeeds: the
\* rest of imageShortcode runs to its return
ImageResolve(call, metadata) ==
    /\ BagIn(call, pending)
    /\ pending' = pending (-) SetToBag({call})
    /\ ogImage' = OgImageAfter(ogImage, metadata)
    /\ lastDone' =
         [ call |-> call, library |-> "resolved", metadata |-> metadata,
           settled |-> [ outcome |-> "returned",
                         fragment |-> Fragment(call.args.caption,
                            GenerateHTML(metadata, ImageAttributes(call.args))) ] ]
    /\ UNCHANGED <<invocations, requests, pathCalls, orderRuns, phase, head,
                   videoVars, copyVars>>

\* the library call resolves, ogImage is assigned, then generateHTML throws
\* (the library refuses the attributes): the exception leaves the shortcode
ImageHtmlThrows(call, metadata) ==
    /\ BagIn(call, pending)
    /\ pending' = pending (-) SetToBag({call})
    /\ ogImage' = OgImageAfter(ogImage, metadata)
    /\ lastDone' =
         [ call |-> call, library |-> "resolved", metadata |-> metadata,
           settled |-> [ outcome |-> "thrown", error |-> "generateHTML error" ] ]
    /\ phase' = "failed"
    /\ UNCHANGED <<invocations, requests, pathCalls, orderRuns, head,
                   videoVars, copyVars>>

\* this.page.ogImage when the await rethrows: the assignment of line 37
\* lies after the await and is not reached
OgImageOnRejectCleared(og) == Undefined
OgImageOnReject(og) == og

\* the library call rejects (the source file cannot be read): the await
\* rethrows, nothing after it runs
ImageReject(call) ==
    /\ BagIn(call, pending)
    /\ pending' = pending (-) SetToBag({call})
    /\ ogImage' = OgImageOnReject(ogImage)
    /\ lastDone' = [ call |-> call, library |-> "rejected",
                     settled |-> ImageFailure("eleventyImage error") ]
    /\ phase' = "failed"
    /\ UNCHANGED <<invocations, requests, pathCalls, orderRuns, head,
                   videoVars, copyVars>>

\* imageShortcode from its await to its return, for the page state it finds
AfterAwait(og, args, metadata) ==
    [ ogImage  |-> OgImageAfter(og, metadata),
      fragment |-> Fragment(args.caption,
                            GenerateHTML(metadata, ImageAttributes(args))) ]

\* the invocations of `completions` resume one after the other on a page
\* whose ogImage is `og`: the page's ogImage at the end and what each returns
RECURSIVE CompleteInOrder(_, _)
CompleteInOrder(og, completions) ==
    IF completions = <<>> THEN [ogImage |-> og, fragments |-> <<>>]
    ELSE LET c    == Head(completions)
             done == AfterAwait(og, c.args, c.metadata)
             rest == CompleteInOrder(done.ogImage, Tail(completions))
         IN  [ ogImage   |-> rest.ogImage,
               fragments |-> <<[of |-> c.id, fragment |-> done.fragment]>>
                             \o rest.fragments ]

\* two invocations of one page, suspended together, resume in either order
CompleteBothOrders(argsA, metadataA, argsB, metadataB) ==
    /\ orderRuns = <<>>
    /\ LET a == [id |-> "A", args |-> argsA, metadata |-> metadataA]
           b == [id |-> "B", args |-> argsB, metadata |-> metadataB]
       IN  orderRuns' = << [ a |-> a, b |-> b,
                             ab |-> CompleteInOrder(Undefined, <<a, b>>),
                             ba |-> CompleteInOrder(Undefined, <<b, a>>) ] >>
    /\ UNCHANGED <<ogImage, invocations, pending, lastDone, requests, pathCalls,
                   phase, head, videoVars, copyVars>>

\* library results for the two: no webp variant, or one
OrderMetadatas == { m \in Metadatas : Len(m.webp) <= 1 }

OrderNext ==
    \E argsA \in ImageArgs, argsB \in ImageArgs :
        \E metadataA \in OrderMetadatas, metadataB \in OrderMetadatas :
            CompleteBothOrders(argsA, metadataA, argsB, metadataB)

\* relativeToInputPath applied to one more (input path, reference) pair
ResolvePath(inputPath, src) ==
    /\ Len(pathCalls) < MaxPathCalls
    /\ pathCalls' = Append(pathCalls, [ inputPath |-> inputPath, src |-> src,
                                        file |-> relativeToInputPath(inputPath, src) ])
    /\ UNCHANGED <<ogImage, invocations, pending, lastDone, requests, orderRuns,
                   phase, head, videoVars, copyVars>>

PathNext == \E inputPath \in InputPaths, src \in SourceRefs : ResolvePath(inputPath, src)

\* metadata.url of _data/metadata.js
SiteUrl == "https://sanzeev.com.np"

\* the template `+` on a text and a value: undefined and null are spelled out
Concat(text, value) ==
    IF value.t = "string" THEN text \o value.s ELSE text \o value.t

NotRendered == [rendered |-> FALSE]

\* the content template has run to its end: every shortcode call it made
\* has returned its fragment
ContentRendered ==
    /\ phase = "content"
    /\ BagCardinality(pending) = 0
    /\ phase' = "rendered"
    /\ UNCHANGED <<ogImage, invocations, pending, lastDone, requests, pathCalls,
                   orderRuns, head, videoVars, copyVars>>

\* the layout is rendered with `content`, the finished text of the page's
\* content template
LayoutMayRenderEarly == phase \in {"content", "rendered"}
LayoutMayRender == phase = "rendered"

\* layouts/base.njk is rendered: <meta property="og:image" ...>
RenderLayout ==
    /\ LayoutMayRender
    /\ phase' = "layout"
    /\ head' = [rendered |-> TRUE, ogImage |-> Concat(SiteUrl, ogImage)]
    /\ UNCHANGED <<ogImage, invocations, pending, lastDone, requests, pathCalls,
                   orderRuns, videoVars, copyVars>>

ImageNext ==
    \/ ContentRendered
    \/ RenderLayout
    \/ \E args \in ImageArgs : ImageInvoke(args)
    \/ \E call \in BagToSet(pending), metadata \in Metadatas : ImageResolve(call, metadata)
    \/ \E call \in BagToSet(pending), metadata \in Metadatas : ImageHtmlThrows(call, metadata)
    \/ \E call \in BagToSet(pending) : ImageReject(call)

(***************************************************************************)
(*          LAZY VIDEO LOADER  (inline script of layouts/base.njk)         *)
(*                                                                         *)
(* The browser side follows the Intersection Observer standard: each       *)
(* rendering update appends, for an observed target whose isIntersecting   *)
(* changed, an entry to the observer's queue; one notification task later  *)
(* hands the whole queue to the callback.  unobserve() removes the target  *)
(* from the observation targets and leaves entries already queued alone.   *)
(***************************************************************************)
MaxQueue == 3       \* entries the browser queues before it notifies

VideoIds == {"v1", "v2"}

\* child elements of a video: a deferred source as the video shortcode emits
\* it, a second one, and a child that is no SOURCE
DeferredA == [tag |-> "SOURCE", data |-> "/video/a.mp4", src |-> ""]
DeferredB == [tag |-> "SOURCE", data |-> "/video/b.webm", src |-> ""]
Track     == [tag |-> "TRACK",  data |-> "",             src |-> "/video/a.vtt"]
Eager     == [tag |-> "SOURCE", data |-> "",             src |-> "/video/c.mp4"]

videoFolder == "video"

\* the video shortcode with the source given as src, not deferred
VideoShortcodeEager(src, caption) ==
    [ video |-> [ controls |-> TRUE, preload |-> "none", class |-> "lazy",
                  children |-> << [ tag  |-> "SOURCE", data |-> "",
                                    src  |-> "/" \o videoFolder \o "/" \o src ] >> ],
      figcaption |-> caption ]
\* videoShortcode(src, caption): the figure it returns
VideoShortcode(src, caption) ==
    [ video |-> [ controls |-> TRUE, preload |-> "none", class |-> "lazy",
                  children |-> << [ tag  |-> "SOURCE",
                                    data |-> "/" \o videoFolder \o "/" \o src,
                                    src  |-> "" ] >> ],
      figcaption |-> caption ]

\* the video element the browser builds from a figure of the shortcode
VideoElement(figure) ==
    [ lazy |-> figure.video.class = "lazy", children |-> figure.video.children,
      loads |-> 0, ops |-> <<>> ]

\* the videos a page can hold at DOMContentLoaded: lazy ones with deferred
\* sources, and ordinary ones without the class
VideoShapes ==
    { VideoElement(VideoShortcode("a.mp4", "demo")),
      [lazy |-> TRUE,  children |-> <<DeferredA, DeferredB>>, loads |-> 0, ops |-> <<>>],
      [lazy |-> TRUE,  children |-> <<Track, DeferredA>>,     loads |-> 0, ops |-> <<>>],
      [lazy |-> FALSE, children |-> <<Eager>>,                loads |-> 0, ops |-> <<>>] }

\* document.querySelectorAll("video.lazy")
LazyVideosAll == DOMAIN videos
LazyVideos == { v \in DOMAIN videos : videos[v].lazy }

\* "IntersectionObserver" in window
ObserverAvailableAlways == TRUE
ObserverAvailable == hasIO

\* the keys `for (const source in video.target.children)` enumerates: the
\* indices of the child elements, then the enumerable properties of the
\* collection's prototype
IndexKey(i)   == [index |-> i, name |-> ""]
NamedKey(str) == [index |-> 0, name |-> str]
ChildKeys(children) ==
    [ i \in 1..Len(children) |-> IndexKey(i) ]
    \o << NamedKey("length"), NamedKey("item"), NamedKey("namedItem") >>

\* video.target.children[source]
ChildAt(children, key) ==
    IF key.name = "" THEN [kind |-> "element", element |-> children[key.index]]
    ELSE IF key.name = "length" THEN [kind |-> "number"]
    ELSE IF key.name \in {"item", "namedItem"} THEN [kind |-> "function"]
    ELSE [kind |-> "undefined"]

\* videoSource.tagName: an element has one, a number or a function has none
TagName(value) ==
    IF value.kind = "element" THEN Str(value.element.tag) ELSE Undefined

\* reading a property of undefined or null throws a TypeError
ReadThrows(value) == value.kind \in {"undefined", "null"}

\* typeof videoSource.tagName === "string" && videoSource.tagName === "SOURCE"
IsSourceAnyTag(value) == TagName(value).t = "string"
IsSource(value) == TagName(value).t = "string" /\ TagName(value).s = "SOURCE"

RECURSIVE CopyEach(_, _)
CopyEach(keys, children) ==
    IF keys = <<>> THEN children
    ELSE LET key == Head(keys) IN
         CopyEach(Tail(keys),
                  IF IsSource(ChildAt(children, key))
                  THEN [children EXCEPT ![key.index].src = children[key.index].data]
                  ELSE children)

\* the for..in loop over video.target.children
CopySources(children) == CopyEach(ChildKeys(children), children)

\* the loop meets a value whose tagName cannot be read
CopyThrows(children) ==
    \E i \in DOMAIN ChildKeys(children) :
        ReadThrows(ChildAt(children, ChildKeys(children)[i]))

\* one call made on the video element or the observer
Op(name, ready) == [op |-> name, ready |-> ready]

\* every child SOURCE has the src its data-src names
SourcesSet(children) ==
    \A k \in DOMAIN children :
        children[k].tag = "SOURCE" => children[k].src = children[k].data

\* the statements of the body of `if (video.isIntersecting)`, in order
LoadSteps == <<"copy", "load", "classList.remove", "unobserve">>

\* one statement applied to the element; the log entry tells whether the
\* sources were set when the statement ran
Step(name, element) ==
    LET logged == [element EXCEPT !.ops = Append(@, Op(name, SourcesSet(element.children)))]
    IN  IF name = "copy" THEN [logged EXCEPT !.children = CopySources(element.children)]
        ELSE IF name = "load" THEN [logged EXCEPT !.loads = @ + 1]
        ELSE IF name = "classList.remove" THEN [logged EXCEPT !.lazy = FALSE]
        ELSE logged

RECURSIVE RunSteps(_, _)
RunSteps(steps, element) ==
    IF steps = <<>> THEN element
    ELSE RunSteps(Tail(steps), Step(Head(steps), element))

\* the body of `if (video.isIntersecting)` for one entry
LoadVideo(st, v) ==
    IF CopyThrows(st.videos[v].children)
    THEN [st EXCEPT !.error = TRUE]
    ELSE [ videos   |-> [st.videos EXCEPT ![v] = RunSteps(LoadSteps, st.videos[v])],
           observed |-> st.observed \ {v},
           error    |-> st.error ]

\* the function given to entries.forEach: `if (video.isIntersecting) {...}`
\* with no else branch
HandleEntryAlways(entry, st) == LoadVideo(st, entry.target)
HandleEntry(entry, st) ==
    IF entry.isIntersecting THEN LoadVideo(st, entry.target) ELSE st

\* entries.forEach(...): the entries of one notification, in order
RECURSIVE ObserverCallback(_, _)
ObserverCallback(entries, st) ==
    IF entries = <<>> \/ st.error THEN st
    ELSE ObserverCallback(Tail(entries), HandleEntry(Head(entries), st))

\* the DOMContentLoaded listener
DOMContentLoaded ==
    /\ ~domReady
    /\ domReady' = TRUE
    /\ IF ObserverAvailable
       THEN IF hasIO
            THEN /\ observer' = TRUE
                 /\ observed' = LazyVideos
                 /\ observeCalls' = [v \in DOMAIN videos |->
                        observeCalls[v] + (IF v \in LazyVideos THEN 1 ELSE 0)]
                 /\ UNCHANGED videoError
            ELSE \* `new IntersectionObserver` with no such constructor
                 /\ videoError' = TRUE
                 /\ UNCHANGED <<observer, observed, observeCalls>>
       ELSE UNCHANGED <<observer, observed, videoError, observeCalls>>
    /\ UNCHANGED <<hasIO, videos, prevInt, queued, imageVars, copyVars>>

\* browser, rendering update: the intersection state of an observed target
\* changed (or is computed for the first time); an entry is queued
QueueEntry(v, isIntersecting) ==
    /\ observer
    /\ v \in observed
    /\ prevInt[v] # (IF isIntersecting THEN "in" ELSE "out")
    /\ Len(queued) < MaxQueue
    /\ queued' = Append(queued, [target |-> v, isIntersecting |-> isIntersecting])
    /\ prevInt' = [prevInt EXCEPT ![v] = IF isIntersecting THEN "in" ELSE "out"]
    /\ UNCHANGED <<hasIO, domReady, videos, observer, observed, videoError, observeCalls,
                   imageVars, copyVars>>

\* browser, notification task: the callback runs on all queued entries
Notify ==
    /\ observer
    /\ queued # <<>>
    /\ LET st == ObserverCallback(queued, [videos |-> videos, observed |-> observed,
                                           error |-> FALSE])
       IN  /\ videos' = st.videos
           /\ observed' = st.observed
           /\ videoError' = (videoError \/ st.error)
    /\ queued' = <<>>
    /\ UNCHANGED <<hasIO, domReady, observer, prevInt, observeCalls,
                   imageVars, copyVars>>

VideoNext ==
    \/ DOMContentLoaded
    \/ \E v \in VideoIds, isIntersecting \in BOOLEAN : QueueEntry(v, isIntersecting)
    \/ Notify

(***************************************************************************)
(*            COPY-TO-CLIPBOARD WIDGET  (public/js/code-copy.js)           *)
(***************************************************************************)
MaxClicks == 2      \* activations of copy triggers in one page visit
MaxTime   == 700    \* the clock stops here once no timer is still to come
TimeStep  == 350    \* granularity of the clock, ms

CopyDelay == 700

copyButtonLabel == "copy code"
copyIcon   == "<i class='gg-copy'></i>"
codeCopied == "&#9989; code copied"
NoButton   == "no button"

BlockIds == {"b1", "b2"}

\* innerText of the block's code element
CodeText == [b \in BlockIds |-> IF b = "b1" THEN "console.log(1)" ELSE "npm test"]

\* a <pre>: with or without a language-* class (a fence without a language
\* is rendered without one), with or without a <code> child
PreShapes == { [language |-> TRUE,  hasCode |-> TRUE],
               [language |-> TRUE,  hasCode |-> FALSE],
               [language |-> FALSE, hasCode |-> TRUE] }

Pre(b, shape) == [kind |-> "pre", id |-> b, language |-> shape.language,
                  hasCode |-> shape.hasCode]
Paragraph     == [kind |-> "p"]
\* <span class="copy-code"><button>..</button></span> whose listener closes
\* over block b
Wrapper(b)    == [kind |-> "copy-code", block |-> b]

\* the documents: two blocks next to each other, or one block between text
Documents ==
    { <<Pre("b1", s1), Pre("b2", s2), Paragraph>> : s1 \in PreShapes, s2 \in PreShapes }
    \cup
    { <<Paragraph, Pre("b1", s1), Paragraph>> : s1 \in PreShapes }

\* document.querySelectorAll("pre[class*='language-']")
IsBlock(node) == node.kind = "pre" /\ node.language
Blocks(d) == { d[i].id : i \in { j \in DOMAIN d : IsBlock(d[j]) } }

\* the node of block b
BlockNode(d, b) == d[CHOOSE i \in DOMAIN d : d[i].kind = "pre" /\ d[i].id = b]

\* if (navigator.clipboard)
ClipboardAvailableAlways == TRUE
ClipboardAvailable == hasClipboard

\* the same with the wrapper put after the block ("afterend")
RECURSIVE InjectTriggersAfterEnd(_)
InjectTriggersAfterEnd(d) ==
    IF d = <<>> THEN <<>>
    ELSE (IF IsBlock(Head(d)) THEN <<Head(d), Wrapper(Head(d).id)>> ELSE <<Head(d)>>)
         \o InjectTriggersAfterEnd(Tail(d))

\* blocks.forEach: block.insertAdjacentElement("beforebegin", wrapper)
RECURSIVE InjectTriggers(_)
InjectTriggers(d) ==
    IF d = <<>> THEN <<>>
    ELSE (IF IsBlock(Head(d)) THEN <<Wrapper(Head(d).id), Head(d)>> ELSE <<Head(d)>>)
         \o InjectTriggers(Tail(d))

\* const text = code.innerText, for a block that has a code element
TextToCopyLabel(b) == copyButtonLabel
TextToCopy(b) == CodeText[b]

\* what the setTimeout callback assigns to button.innerHTML
TimeoutLabelKept == codeCopied
TimeoutLabel == copyIcon

\* the blocks whose trigger (and click listener) is in the document
Triggered(d) == { d[i].block : i \in { j \in DOMAIN d : d[j].kind = "copy-code" } }

RECURSIVE Total(_, _)
Total(f, S) == IF S = {} THEN 0
               ELSE LET x == CHOOSE y \in S : TRUE IN f[x] + Total(f, S \ {x})

\* the top level of code-copy.js
CopyScriptRun ==
    /\ ~scriptRun
    /\ scriptRun' = TRUE
    /\ IF ClipboardAvailable
       THEN /\ dom' = InjectTriggers(dom)
            /\ label' = [b \in BlockIds |-> IF b \in Blocks(dom) THEN copyIcon ELSE label[b]]
       ELSE UNCHANGED <<dom, label>>
    /\ UNCHANGED <<hasClipboard, rejected, writes, timers, clipLog, clicks, errors, now,
                   imageVars, videoVars>>

\* button.innerHTML when copyCode suspends at its await: nothing before the
\* await assigns it
LabelAtAwaitConfirmed(b) == codeCopied
LabelAtAwait(b) == label[b]

\* the buttons whose innerHTML a resumed copyCode(block, button) assigns: the
\* one the listener closed over
ButtonsOfAll(b) == Triggered(dom)
ButtonsOf(b) == {b}

\* a click on the trigger of block b: the listener calls copyCode, which
\* runs up to `await navigator.clipboard.writeText(text)`
Click(b) ==
    /\ b \in Triggered(dom)
    /\ Total(clicks, BlockIds) < MaxClicks
    /\ clicks' = [clicks EXCEPT ![b] = @ + 1]
    /\ IF BlockNode(dom, b).hasCode /\ hasClipboard
       THEN /\ clipLog' = [clipLog EXCEPT ![b] = Append(@, TextToCopy(b))]
            /\ writes' = [writes EXCEPT ![b] = @ + 1]
            /\ label' = [label EXCEPT ![b] = LabelAtAwait(b)]
            /\ UNCHANGED errors
       ELSE \* `code` is null (or navigator.clipboard undefined): TypeError,
            \* the listener's promise rejects
            /\ errors' = [errors EXCEPT ![b] = @ + 1]
            /\ UNCHANGED <<clipLog, writes, label>>
    /\ UNCHANGED <<hasClipboard, rejected, scriptRun, dom, timers, now,
                   imageVars, videoVars>>

\* a clipboard write of block b's trigger is fulfilled: copyCode resumes,
\* shows the confirmation and starts the timer
WriteResolve(b) ==
    /\ writes[b] > 0
    /\ writes' = [writes EXCEPT ![b] = @ - 1]
    /\ label' = [c \in BlockIds |-> IF c \in ButtonsOf(b) THEN codeCopied ELSE label[c]]
    /\ timers' = [timers EXCEPT ![b] = @ \cup {now + CopyDelay}]
    /\ UNCHANGED <<hasClipboard, rejected, scriptRun, dom, clipLog, clicks, errors, now,
                   imageVars, videoVars>>

\* copyCode and the listener when the awaited write is rejected: the await
\* rethrows, so nothing after it runs (no confirmation, no timer, no second
\* write) and the listener's promise rejects
CopyCodeRejectedSwallowed(b) ==
    [ label |-> codeCopied, timers |-> timers[b] \cup {now + CopyDelay},
      errors |-> errors[b], retried |-> <<>> ]
CopyCodeRejected(b) ==
    [ label |-> label[b], timers |-> timers[b],
      errors |-> errors[b] + 1, retried |-> <<>> ]

\* a clipboard write is rejected: the await rethrows, copyCode and the
\* listener reject
WriteReject(b) ==
    /\ writes[b] > 0
    /\ writes' = [writes EXCEPT ![b] = @ - 1]
    /\ rejected' = [rejected EXCEPT ![b] = @ + 1]
    /\ LET after == CopyCodeRejected(b)
       IN  /\ label' = [label EXCEPT ![b] = after.label]
           /\ timers' = [timers EXCEPT ![b] = after.timers]
           /\ errors' = [errors EXCEPT ![b] = after.errors]
           /\ clipLog' = [clipLog EXCEPT ![b] = @ \o after.retried]
    /\ UNCHANGED <<hasClipboard, scriptRun, dom, clicks, now, imageVars, videoVars>>

\* a setTimeout callback of block b's trigger runs, not before its delay
TimerFire(b, deadline) ==
    /\ deadline \in timers[b]
    /\ deadline <= now
    /\ label' = [label EXCEPT ![b] = TimeoutLabel]
    /\ timers' = [timers EXCEPT ![b] = @ \ {deadline}]
    /\ UNCHANGED <<hasClipboard, rejected, scriptRun, dom, writes, clipLog, clicks, errors, now,
                   imageVars, videoVars>>

\* time passes, while something can still happen
Tick ==
    /\ \/ now < MaxTime /\ scriptRun /\ Triggered(dom) # {}
       \/ \E b \in BlockIds : \E d \in timers[b] : d > now
    /\ now' = now + TimeStep
    /\ UNCHANGED <<hasClipboard, rejected, scriptRun, dom, label, writes, timers, clipLog,
                   clicks, errors,
                   imageVars, videoVars>>

CopyNext ==
    \/ CopyScriptRun
    \/ \E b \in BlockIds : Click(b)
    \/ \E b \in BlockIds : WriteResolve(b)
    \/ \E b \in BlockIds : WriteReject(b)
    \/ \E b \in BlockIds : \E deadline \in timers[b] : TimerFire(b, deadline)
    \/ Tick

(***************************************************************************)
(*                            SPECIFICATIONS                               *)
(*                                                                         *)
(* Each component runs against the empty state of the other two: no image  *)
(* invocation, a page without videos, a page without code blocks.          *)
(***************************************************************************)
InitImage ==
    /\ ogImage = Undefined /\ invocations = 0 /\ pending = EmptyBag
    /\ lastDone = NotSettled
    /\ requests = 0 /\ pathCalls = <<>> /\ orderRuns = <<>>
    /\ phase = "content" /\ head = NotRendered
    /\ hasIO = TRUE /\ domReady = TRUE /\ videos = << >> /\ observer = TRUE
    /\ observed = {} /\ prevInt = << >> /\ queued = <<>> /\ videoError = FALSE
    /\ observeCalls = << >>
    /\ hasClipboard = TRUE /\ scriptRun = TRUE /\ dom = <<Paragraph>>
    /\ label = [b \in BlockIds |-> NoButton] /\ writes = [b \in BlockIds |-> 0]
    /\ timers = [b \in BlockIds |-> {}] /\ clipLog = [b \in BlockIds |-> <<>>]
    /\ clicks = [b \in BlockIds |-> 0] /\ errors = [b \in BlockIds |-> 0]
    /\ rejected = [b \in BlockIds |-> 0] /\ now = 0

InitVideo ==
    /\ hasIO \in BOOLEAN
    /\ domReady = FALSE
    /\ videos \in [VideoIds -> VideoShapes]
    /\ observer = FALSE
    /\ observed = {}
    /\ prevInt = [v \in VideoIds |-> "none"]
    /\ queued = <<>>
    /\ videoError = FALSE
    /\ observeCalls = [v \in VideoIds |-> 0]
    /\ ogImage = Undefined /\ invocations = 0 /\ pending = EmptyBag
    /\ lastDone = NotSettled
    /\ requests = 0 /\ pathCalls = <<>> /\ orderRuns = <<>>
    /\ phase = "content" /\ head = NotRendered
    /\ hasClipboard = TRUE /\ scriptRun = TRUE /\ dom = <<Paragraph>>
    /\ label = [b \in BlockIds |-> NoButton] /\ writes = [b \in BlockIds |-> 0]
    /\ timers = [b \in BlockIds |-> {}] /\ clipLog = [b \in BlockIds |-> <<>>]
    /\ clicks = [b \in BlockIds |-> 0] /\ errors = [b \in BlockIds |-> 0]
    /\ rejected = [b \in BlockIds |-> 0] /\ now = 0

InitCopy ==
    /\ hasClipboard \in BOOLEAN
    /\ scriptRun = FALSE
    /\ dom \in Documents
    /\ label = [b \in BlockIds |-> NoButton]
    /\ writes = [b \in BlockIds |-> 0]
    /\ timers = [b \in BlockIds |-> {}]
    /\ clipLog = [b \in BlockIds |-> <<>>]
    /\ clicks = [b \in BlockIds |-> 0]
    /\ errors = [b \in BlockIds |-> 0]
    /\ rejected = [b \in BlockIds |-> 0]
    /\ now = 0
    /\ ogImage = Undefined /\ invocations = 0 /\ pending = EmptyBag
    /\ lastDone = NotSettled
    /\ requests = 0 /\ pathCalls = <<>> /\ orderRuns = <<>>
    /\ phase = "content" /\ head = NotRendered
    /\ hasIO = TRUE /\ domReady = TRUE /\ videos = << >> /\ observer = TRUE
    /\ observed = {} /\ prevInt = << >> /\ queued = <<>> /\ videoError = FALSE
    /\ observeCalls = << >>

\* a page with videos and code blocks whose template calls the image shortcode
Init ==
    /\ ogImage = Undefined /\ invocations = 0 /\ pending = EmptyBag
    /\ lastDone = NotSettled
    /\ requests = 0 /\ pathCalls = <<>> /\ orderRuns = <<>>
    /\ phase = "content" /\ head = NotRendered
    /\ hasIO \in BOOLEAN /\ domReady = FALSE /\ videos \in [VideoIds -> VideoShapes]
    /\ observer = FALSE /\ observed = {} /\ prevInt = [v \in VideoIds |-> "none"]
    /\ queued = <<>> /\ videoError = FALSE
    /\ observeCalls = [v \in VideoIds |-> 0]
    /\ hasClipboard \in BOOLEAN /\ scriptRun = FALSE /\ dom \in Documents
    /\ label = [b \in BlockIds |-> NoButton] /\ writes = [b \in BlockIds |-> 0]
    /\ timers = [b \in BlockIds |-> {}] /\ clipLog = [b \in BlockIds |-> <<>>]
    /\ clicks = [b \in BlockIds |-> 0] /\ errors = [b \in BlockIds |-> 0]
    /\ rejected = [b \in BlockIds |-> 0] /\ now = 0

Next == ImageNext \/ VideoNext \/ CopyNext

Spec      == Init /\ [][Next]_vars
SpecImage == InitImage /\ [][ImageNext]_vars
SpecVideo == InitVideo /\ [][VideoNext]_vars
SpecCopy  == InitCopy /\ [][CopyNext]_vars
\* path resolution alone, on pages of several directories
SpecPath  == InitImage /\ [][PathNext]_vars
\* two invocations of one page in both completion orders
SpecOrder == InitImage /\ [][OrderNext]_vars

\* the browser settles every clipboard write, lets time pass and runs every
\* timer that is due
SpecCopyFair ==
    /\ SpecCopy
    /\ WF_vars(\E b \in BlockIds : WriteResolve(b) \/ WriteReject(b))
    /\ WF_vars(Tick)
    /\ WF_vars(\E b \in BlockIds : \E deadline \in timers[b] : TimerFire(b, deadline))

(***************************************************************************)
(*                     PROPERTIES: IMAGE SHORTCODE                         *)
(***************************************************************************)
\* this step is the return of an invocation whose library call resolved
ImageReturns ==
    /\ BagCardinality(pending') < BagCardinality(pending)
    /\ lastDone'.library = "resolved"
    /\ lastDone'.settled.outcome = "returned"

\* positions of the webp variants of exactly the Open Graph size
ExactVariants(metadata) ==
    { k \in DOMAIN metadata.webp :
        metadata.webp[k].width = 1200 /\ metadata.webp[k].height = 627 }

\* C1: whenever an invocation returns, page.ogImage has become the URL of a
\* webp variant of exactly 1200x627 if the returned webp list holds such a
\* variant at any position, and has kept its previous value if it holds none.
C1_OgImageIffAnyExactVariant ==
    [][ ImageReturns =>
          LET metadata == lastDone'.metadata IN
          IF ExactVariants(metadata) # {}
          THEN \E k \in ExactVariants(metadata) :
                   ogImage' = Str(metadata.webp[k].url)
          ELSE ogImage' = ogImage ]_vars

\* C6: an invocation whose library call failed has settled by throwing the
\* library's error: it returned no fragment, neither a real nor a fallback one.
C6_LibraryFailurePropagates ==
    lastDone.library = "rejected" =>
        lastDone.settled = [outcome |-> "thrown", error |-> "eleventyImage error"]

C6_Witness ==
    /\ lastDone.library = "rejected"
    /\ lastDone.settled.outcome = "thrown"

\* the caller supplied a caption: a non-empty text (not omitted, null or "")
CaptionSupplied(args) == args.caption.t = "string" /\ args.caption.s # ""

FigcaptionAt(fragment) == { i \in DOMAIN fragment : fragment[i] = Tag("<figcaption>") }

\* C7: a returned fragment is, with a caption supplied, a figure holding the
\* image markup followed by exactly one figcaption whose content is the
\* caption text; without a caption (omitted, null or empty) it is a div of
\* class no-caption holding the image markup and no figcaption.
C7_CaptionDecidesWrapper ==
    (lastDone.library = "resolved" /\ lastDone.settled.outcome = "returned") =>
        LET args     == lastDone.call.args
            fragment == lastDone.settled.fragment
            image    == GenerateHTML(lastDone.metadata, ImageAttributes(args))
        IN  IF CaptionSupplied(args)
            THEN /\ fragment[1] = Tag("<figure>")
                 /\ fragment[Len(fragment)] = Tag("</figure>")
                 /\ Cardinality(FigcaptionAt(fragment)) = 1
                 /\ \A i \in FigcaptionAt(fragment) :
                        /\ \E j \in 2..(i - 1) : fragment[j] = image
                        /\ fragment[i + 1] = Text(args.caption.s)
                        /\ fragment[i + 2] = Tag("</figcaption>")
            ELSE /\ fragment = << Tag("<div class='no-caption'>"), image, Tag("</div>") >>
                 /\ FigcaptionAt(fragment) = {}

C7_Witness ==
    /\ lastDone.library = "resolved"
    /\ lastDone.settled.outcome = "returned"
    /\ CaptionSupplied(lastDone.call.args)
    /\ Len(lastDone.metadata.webp) > 0

(***************************************************************************)
(*                     PROPERTIES: LAZY VIDEO LOADER                       *)
(***************************************************************************)
SourcesCopied(video) ==
    \A k \in DOMAIN video.children :
        video.children[k].tag = "SOURCE" => video.children[k].src = video.children[k].data

\* C2: a video whose first intersecting entry was handled has every child
\* SOURCE's src equal to its data-src, and no later intersecting entry
\* processes it again: load() has run at most once on each video.
C2_LoadedOnceOnFirstIntersection ==
    \A v \in DOMAIN videos :
        /\ videos[v].loads >= 1 => SourcesCopied(videos[v])
        /\ videos[v].loads <= 1

\* C9: without IntersectionObserver no watcher is created, nothing is
\* observed or queued, no error is raised, and no step ever changes a video
\* (no source gets a src, load() is not called, the lazy class stays).
C9_NoObserverNoChange ==
    /\ [](~hasIO => /\ ~observer
                    /\ observed = {}
                    /\ queued = <<>>
                    /\ ~videoError
                    /\ \A v \in DOMAIN videos : videos[v].loads = 0)
    /\ [][~hasIO => videos' = videos]_vars

C9_Witness == ~hasIO /\ domReady /\ LazyVideos # {}

(***************************************************************************)
(*                       PROPERTIES: COPY WIDGET                           *)
(***************************************************************************)
\* C3: for a block with a trigger and a code element, every activation has
\* made exactly one clipboard write, and each write carried exactly the
\* code's text (console.log(1) for the block that contains console.log(1)).
C3_WritesExactlyTheCodeText ==
    \A b \in Triggered(dom) :
        BlockNode(dom, b).hasCode =>
            /\ Len(clipLog[b]) = clicks[b]
            /\ \A k \in DOMAIN clipLog[b] : clipLog[b][k] = CodeText[b]
            /\ b = "b1" => \A k \in DOMAIN clipLog[b] : clipLog[b][k] = "console.log(1)"

C3_Witness ==
    /\ "b1" \in Triggered(dom)
    /\ BlockNode(dom, "b1").hasCode
    /\ clicks["b1"] = 2
    /\ clipLog["b1"] = <<"console.log(1)", "console.log(1)">>

\* nothing of block b's trigger is in progress: no write in flight, no timer
Quiescent(b) == writes[b] = 0 /\ timers[b] = {}

\* C4: after any (finite) sequence of activations, each trigger's label
\* eventually is the copy icon again and stays so; and whenever nothing of a
\* trigger is in progress its label is the copy icon, so only a further
\* activation can change it.
C4_LabelReturnsToResting ==
    /\ [](\A b \in Triggered(dom) : Quiescent(b) => label[b] = copyIcon)
    /\ \A b \in BlockIds : <>[](b \in Triggered(dom) => label[b] = copyIcon)

C4_Witness ==
    \E b \in Triggered(dom) :
        /\ clicks[b] = 2 /\ errors[b] = 0
        /\ Quiescent(b)
        /\ label[b] = copyIcon
        /\ now >= CopyDelay

\* C5: a confirmation shown less than 700 ms ago is still on the trigger:
\* while a timer of a trigger has not reached its deadline (it was started
\* by a confirmation less than the delay ago), the label is the confirmation.
C5_ConfirmationLastsFullInterval ==
    \A b \in BlockIds :
        (\E deadline \in timers[b] : now < deadline) => label[b] = codeCopied

WrappersOf(d, b) == { j \in DOMAIN d : d[j] = Wrapper(b) }

\* C10 as stated: once the script has run with the clipboard available,
\* every pre block of the document has exactly one trigger, right before it;
\* without the clipboard there is no trigger and no listener.
C10_EveryPreGetsTrigger ==
    scriptRun =>
        IF hasClipboard
        THEN \A i \in DOMAIN dom :
                dom[i].kind = "pre" =>
                    /\ i > 1 /\ dom[i - 1] = Wrapper(dom[i].id)
                    /\ Cardinality(WrappersOf(dom, dom[i].id)) = 1
        ELSE Triggered(dom) = {}

\* C10 amended: once the script has run with the clipboard available, every
\* pre block whose class contains "language-" has exactly one trigger, right
\* before it, and a pre block without such a class has none; without the
\* clipboard (and before the script runs) there is no trigger, no button and
\* no listener.
C10_EveryLanguageBlockGetsTrigger ==
    IF scriptRun /\ hasClipboard
    THEN \A i \in DOMAIN dom :
            dom[i].kind = "pre" =>
                IF dom[i].language
                THEN /\ i > 1 /\ dom[i - 1] = Wrapper(dom[i].id)
                     /\ Cardinality(WrappersOf(dom, dom[i].id)) = 1
                ELSE WrappersOf(dom, dom[i].id) = {}
    ELSE /\ Triggered(dom) = {}
         /\ \A b \in BlockIds : label[b] = NoButton /\ clicks[b] = 0

C10_Witness ==
    /\ scriptRun /\ hasClipboard
    /\ \E i \in DOMAIN dom : dom[i].kind = "pre" /\ dom[i].language
    /\ \E i \in DOMAIN dom : dom[i].kind = "pre" /\ ~dom[i].language
    /\ Triggered(dom) # {}

\* this step is the rejection of a clipboard write of block b's trigger
WriteRejected(b) == rejected'[b] = rejected[b] + 1

\* C11: when a clipboard write is rejected, that step makes no further
\* writeText call, leaves the trigger's label and its timers as they were
\* and adds one rejection of the click listener; so the writes made never
\* exceed the activations and every rejected write has surfaced as an error.
C11_RejectedWriteSurfaces ==
    /\ [][ \A b \in BlockIds :
              WriteRejected(b) =>
                  /\ clipLog'[b] = clipLog[b]
                  /\ label'[b] = label[b]
                  /\ timers'[b] = timers[b]
                  /\ errors'[b] = errors[b] + 1 ]_vars
    /\ [](\A b \in BlockIds :
              /\ Len(clipLog[b]) <= clicks[b]
              /\ errors[b] = rejected[b] + (clicks[b] - Len(clipLog[b])))

C11_Witness ==
    \E b \in BlockIds : rejected[b] = 1 /\ errors[b] = 1 /\ label[b] = copyIcon

\* this step is the DOMContentLoaded listener running with the observer
\* constructor present
ObserversRegistered == ~domReady /\ domReady' /\ hasIO

\* C12: the DOMContentLoaded listener calls observe() once for each video
\* that carries class lazy at that moment and for nothing else; no later
\* step calls observe(), so a video that has been loaded and unobserved is
\* never a target again.
C12_ExactlyLazyVideosRegistered ==
    /\ [][ /\ ObserversRegistered =>
                /\ observed' = { v \in VideoIds : videos[v].lazy }
                /\ observeCalls' =
                      [v \in VideoIds |-> IF videos[v].lazy THEN 1 ELSE 0]
           /\ ~ObserversRegistered =>
                /\ observeCalls' = observeCalls
                /\ observed' \subseteq observed ]_vars
    /\ [](\A v \in DOMAIN videos :
              /\ v \in observed => observeCalls[v] = 1
              /\ videos[v].loads > 0 => v \notin observed)

C12_Witness ==
    /\ domReady
    /\ \E v \in DOMAIN videos :
          videos[v].loads > 0 /\ observeCalls[v] = 1 /\ v \notin observed
    /\ \E v \in DOMAIN videos : observeCalls[v] = 0 /\ v \notin observed

\* the pieces of a fragment that are markup of the library
LibraryMarkupAt(fragment) ==
    { i \in DOMAIN fragment : "attributes" \in DOMAIN fragment[i] }

\* C13: every fragment the image shortcode returns holds the library's
\* markup once, generated from the metadata of this invocation with
\* loading "lazy", decoding "async" and the caller's alt and sizes values.
C13_LazyAsyncAttributes ==
    (lastDone.library = "resolved" /\ lastDone.settled.outcome = "returned") =>
        LET args     == lastDone.call.args
            fragment == lastDone.settled.fragment
        IN  /\ Cardinality(LibraryMarkupAt(fragment)) = 1
            /\ \A i \in LibraryMarkupAt(fragment) :
                  /\ fragment[i].metadata = lastDone.metadata
                  /\ fragment[i].attributes.loading = "lazy"
                  /\ fragment[i].attributes.decoding = "async"
                  /\ fragment[i].attributes.alt = args.alt
                  /\ fragment[i].attributes.sizes = args.sizes
                  /\ DOMAIN fragment[i].attributes =
                        {"alt", "sizes", "loading", "decoding"}

C13_Witness ==
    /\ lastDone.library = "resolved"
    /\ lastDone.settled.outcome = "returned"
    /\ lastDone.call.args.sizes = Str("100vw")
    /\ ~Truthy(lastDone.call.args.caption)

\* the named pieces of a path string, in order
Pieces(str) == Normalize(<<>>, Split(str, PathSep))

\* the directory that contains the page's input file, from the root
DirectoryOf(inputPath) ==
    Normalize(<<>>, Split(Cwd, PathSep) \o Pop(Split(inputPath, PathSep)))

\* the reference climbs with ".."
Climbs(src) == \E i \in DOMAIN src : src[i] = ".."

\* the file of every call is the reference resolved against the directory
\* of the input path
ResolvedAgainstDirectory ==
    \A i \in DOMAIN pathCalls :
        LET c == pathCalls[i]
        IN  /\ IsAbsolute(c.file)
            /\ Pieces(c.file) =
                  Normalize(DirectoryOf(c.inputPath), Split(c.src, PathSep))

\* two calls with the same reference from pages of different directories
SameRefOtherDirectory(i, j) ==
    /\ pathCalls[i].src = pathCalls[j].src
    /\ DirectoryOf(pathCalls[i].inputPath) # DirectoryOf(pathCalls[j].inputPath)

\* C14 as stated: the file is the reference resolved against the directory
\* of the page's input file, and one reference used from pages of different
\* directories always gives different files.
C14_DifferentDirectoriesDifferentFiles ==
    /\ ResolvedAgainstDirectory
    /\ \A i, j \in DOMAIN pathCalls :
          SameRefOtherDirectory(i, j) => pathCalls[i].file # pathCalls[j].file

\* C14: the file is the reference resolved against the directory of the
\* page's input file (the input path without its last piece); one reference
\* that does not climb with ".." gives different files from pages of
\* different directories.
C14_ResolvedAgainstPageDirectory ==
    /\ ResolvedAgainstDirectory
    /\ \A i, j \in DOMAIN pathCalls :
          (SameRefOtherDirectory(i, j) /\ ~Climbs(pathCalls[i].src))
              => pathCalls[i].file # pathCalls[j].file

C14_Witness ==
    /\ Len(pathCalls) = 2
    /\ SameRefOtherDirectory(1, 2)
    /\ ~Climbs(pathCalls[1].src)
    /\ pathCalls[1].file = <<"/", "site", "/", "blog", "/", "observer", "/", "img", "/", "cover.png">>
    /\ pathCalls[2].file = <<"/", "site", "/", "about", "/", "img", "/", "cover.png">>

\* the calls of eleventyImage() known to the model: suspended and last settled
KnownCalls ==
    BagToSet(pending) \cup (IF lastDone.library = "none" THEN {} ELSE {lastDone.call})

\* C15: one eleventyImage() call is made per invocation of the shortcode,
\* and each asks for the formats webp and auto, with animated set, into
\* <output dir>/img, whatever the arguments.
C15_OneRequestFixedOptions ==
    /\ requests = invocations
    /\ BagCardinality(pending) <= requests
    /\ \A call \in KnownCalls :
          /\ call.request.formats = <<"webp", "auto">>
          /\ call.request.animated = TRUE
          /\ call.request.outputDir = <<"dir.output", "img">>

C15_Witness ==
    /\ invocations = 2
    /\ lastDone.library # "none"
    /\ \E call \in BagToSet(pending) : call.args # lastDone.call.args

\* C18: the widths option is the caller's list when a list is given (an
\* empty one included) and ["auto"] when widths is undefined or null.
C18_WidthsDefault ==
    \A call \in KnownCalls :
        call.request.widths =
            (IF call.args.widths.t = "array" THEN call.args.widths
             ELSE [t |-> "array", l |-> <<"auto">>])

C18_Witness ==
    /\ lastDone.library # "none"
    /\ lastDone.call.args.widths = Null
    /\ \E call \in BagToSet(pending) : call.args.widths = Arr(<<>>)

\* the fragment invocation `id` returned in an outcome
FragmentOf(outcome, id) ==
    LET i == CHOOSE j \in DOMAIN outcome.fragments : outcome.fragments[j].of = id
    IN  outcome.fragments[i].fragment

SameFragments(run) ==
    \A id \in {"A", "B"} : FragmentOf(run.ab, id) = FragmentOf(run.ba, id)

\* both invocations got a first webp variant of the Open Graph size, of
\* different URLs
RivalCandidates(run) ==
    /\ IsOgCandidate(run.a.metadata)
    /\ IsOgCandidate(run.b.metadata)
    /\ CoverImage(run.a.metadata).url # CoverImage(run.b.metadata).url

\* C16 as stated: the page's ogImage and every returned fragment are the
\* same for both completion orders of two invocations of one page.
C16_OrderIndependent ==
    \A i \in DOMAIN orderRuns :
        /\ orderRuns[i].ab.ogImage = orderRuns[i].ba.ogImage
        /\ SameFragments(orderRuns[i])

\* C16: every returned fragment is the same for both completion orders;
\* the page's ogImage is the same for both orders unless both invocations
\* yield a candidate and the URLs differ, and then it is the URL of the
\* invocation that completed last.
C16_OrderIndependentButRivals ==
    \A i \in DOMAIN orderRuns :
        LET run == orderRuns[i]
        IN  /\ SameFragments(run)
            /\ ~RivalCandidates(run) => run.ab.ogImage = run.ba.ogImage
            /\ RivalCandidates(run) =>
                  /\ run.ab.ogImage = Str(CoverImage(run.b.metadata).url)
                  /\ run.ba.ogImage = Str(CoverImage(run.a.metadata).url)

C16_Witness ==
    \E i \in DOMAIN orderRuns :
        /\ IsOgCandidate(orderRuns[i].a.metadata)
        /\ ~IsOgCandidate(orderRuns[i].b.metadata)
        /\ orderRuns[i].a.args.caption # orderRuns[i].b.args.caption
        /\ orderRuns[i].ab.ogImage = Str("/img/a-1200.webp")
        /\ orderRuns[i].ba.ogImage = Str("/img/a-1200.webp")

\* the element of the figure the video shortcode emits for "a.mp4"
Emitted == VideoElement(VideoShortcode("a.mp4", "demo"))

\* video v of the page stems from that figure
FromShortcode(v) ==
    /\ Len(videos[v].children) = 1
    /\ videos[v].children[1].tag = "SOURCE"
    /\ videos[v].children[1].data = "/video/a.mp4"

\* C17: the video of the figure emitted for source "a.mp4" has class lazy,
\* preload none and one source with data-src "/video/a.mp4" and no src; on
\* the page it stays so until it is loaded, and once loaded its source's src
\* is "/video/a.mp4" and the class lazy is gone.
C17_ShortcodeMarkupConsumed ==
    /\ VideoShortcode("a.mp4", "demo").video.preload = "none"
    /\ VideoShortcode("a.mp4", "demo").video.class = "lazy"
    /\ Emitted.lazy
    /\ Emitted.children = << [tag |-> "SOURCE", data |-> "/video/a.mp4", src |-> ""] >>
    /\ \A v \in DOMAIN videos :
          FromShortcode(v) =>
              /\ videos[v].loads = 0 => videos[v] = Emitted
              /\ videos[v].loads >= 1 =>
                    /\ videos[v].children[1].src = "/video/a.mp4"
                    /\ ~videos[v].lazy

C17_Witness ==
    \E v \in DOMAIN videos :
        /\ FromShortcode(v)
        /\ videos[v].loads = 1
        /\ videos[v].children[1].src = "/video/a.mp4"
        /\ ~videos[v].lazy

\* the calls the handling of one intersecting entry makes, sources unset
\* before the copy and set at every later call
FirstRound ==
    << Op("copy", FALSE), Op("load", TRUE), Op("classList.remove", TRUE),
       Op("unobserve", TRUE) >>

\* C19: the calls made on a video are, in this order and once each: the
\* copy of data-src to src, load(), removal of class lazy, unobserve; and
\* load() runs only when every source has its src.
C19_StepsInOrderLoadOnce ==
    \A v \in DOMAIN videos :
        /\ videos[v].ops \in {<<>>, FirstRound}
        /\ \A i \in DOMAIN videos[v].ops :
              videos[v].ops[i].op = "load" => videos[v].ops[i].ready

\* the block's text content
BlockText(b) ==
    IF BlockNode(dom, b).hasCode THEN CodeText[b] ELSE "text of " \o b

\* C20: for every block with a trigger, with or without a code element,
\* every activation has made one clipboard write with the block's text.
C20_EveryActivationWritesBlockText ==
    \A b \in Triggered(dom) :
        /\ Len(clipLog[b]) = clicks[b]
        /\ \A i \in DOMAIN clipLog[b] : clipLog[b][i] = BlockText(b)

\* this step settles an invocation whose library call returned / failed
LibraryReturned == BagCardinality(pending') < BagCardinality(pending)
                   /\ lastDone'.library = "resolved"
LibraryFailed   == BagCardinality(pending') < BagCardinality(pending)
                   /\ lastDone'.library = "rejected"

\* the first webp variant exists and is exactly 1200 wide and 627 high
FirstVariantExact(metadata) ==
    /\ Len(metadata.webp) >= 1
    /\ metadata.webp[1].width = 1200
    /\ metadata.webp[1].height = 627

\* C22: an invocation that completes with a first webp variant of exactly
\* 1200x627 makes that variant's URL the page's ogImage; one that completes
\* without such a first variant leaves ogImage as it was.  So ogImage is
\* its initial value or the URL of the latest such completion.
C22_OgImageIsLatestCandidate ==
    /\ [][ LibraryReturned =>
              IF FirstVariantExact(lastDone'.metadata)
              THEN ogImage' = [t |-> "string", s |-> lastDone'.metadata.webp[1].url]
              ELSE ogImage' = ogImage ]_vars
    /\ [](\/ ogImage = [t |-> "undefined"]
          \/ \E variant \in Variants :
                /\ variant.width = 1200 /\ variant.height = 627
                /\ ogImage = [t |-> "string", s |-> variant.url])

C22_Witness ==
    /\ lastDone.library = "resolved"
    /\ ~FirstVariantExact(lastDone.metadata)
    /\ Len(lastDone.metadata.webp) >= 1
    /\ ogImage = [t |-> "string", s |-> "/img/b-1200.webp"]

\* C23: the step in which an invocation's library call fails leaves the
\* page's ogImage as it was, and ogImage changes only in a step in which a
\* library call has returned.
C23_FailureLeavesOgImage ==
    [][ /\ LibraryFailed => ogImage' = ogImage
        /\ ogImage' # ogImage => LibraryReturned ]_vars

C23_Witness ==
    /\ lastDone.library = "rejected"
    /\ ogImage = [t |-> "string", s |-> "/img/a-1200.webp"]
    /\ BagCardinality(pending) = 0

\* the notification in hand holds an intersecting entry for video v
IntersectingEntryFor(v) ==
    \E i \in DOMAIN queued : queued[i].target = v /\ queued[i].isIntersecting

\* this step is a notification that holds entries for v, none intersecting
OnlyNonIntersecting(v) ==
    /\ queued # <<>> /\ queued' = <<>>
    /\ \E i \in DOMAIN queued : queued[i].target = v
    /\ ~IntersectingEntryFor(v)

\* C24: a notification whose entries for a video are all non-intersecting
\* leaves the video as it was (children, load() count, class lazy, calls
\* made on it) and leaves it observed if it was; a video never handled with
\* an intersecting entry has no source with a src, no load() and class lazy.
C24_NonIntersectingChangesNothing ==
    /\ [][ \A v \in DOMAIN videos :
              OnlyNonIntersecting(v) =>
                  /\ videos'[v] = videos[v]
                  /\ (v \in observed') = (v \in observed) ]_vars
    /\ [](\A v \in DOMAIN videos :
              (v \in observed /\ videos[v].ops = <<>>) =>
                  /\ videos[v].lazy
                  /\ videos[v].loads = 0
                  /\ \A k \in DOMAIN videos[v].children :
                        videos[v].children[k].tag = "SOURCE"
                            => videos[v].children[k].src = "")

\* a non-intersecting entry for v has been delivered and v is still waiting
C24_Witness ==
    \E v \in DOMAIN videos :
        /\ prevInt[v] = "out"
        /\ queued = <<>>
        /\ v \in observed
        /\ videos[v].lazy /\ videos[v].loads = 0

\* the names the for..in loop enumerates besides the indices
NonElementKeys(children) ==
    { ChildKeys(children)[i].name : i \in DOMAIN ChildKeys(children) } \ {""}

\* C27: loading a video changes, among its children, only those whose tag
\* is SOURCE: every other child is as before (a track keeps its own src,
\* nothing gets one), the collection keeps its length although the loop
\* also visits length, item and namedItem, and the callback does not throw.
C27_OnlySourceChildrenModified ==
    /\ [][ \A v \in DOMAIN videos :
              /\ Len(videos'[v].children) = Len(videos[v].children)
              /\ \A k \in DOMAIN videos[v].children :
                    videos[v].children[k].tag # "SOURCE"
                        => videos'[v].children[k] = videos[v].children[k] ]_vars
    /\ [](\A v \in DOMAIN videos :
              /\ NonElementKeys(videos[v].children) = {"length", "item", "namedItem"}
              /\ ~videoError)

C27_Witness ==
    \E v \in DOMAIN videos :
        /\ videos[v].loads = 1
        /\ \E k \in DOMAIN videos[v].children :
              /\ videos[v].children[k].tag = "TRACK"
              /\ videos[v].children[k].src = "/video/a.vtt"
        /\ \E k \in DOMAIN videos[v].children :
              /\ videos[v].children[k].tag = "SOURCE"
              /\ videos[v].children[k].src = "/video/a.mp4"
        /\ ~videoError

\* writes of block b's trigger that the browser has fulfilled
Fulfilled(b) == Len(clipLog[b]) - writes[b] - rejected[b]

\* this step fulfils a clipboard write of block b's trigger
WriteFulfilled(b) == writes'[b] = writes[b] - 1 /\ rejected'[b] = rejected[b]

\* C25: the confirmation appears on a trigger only in the step in which a
\* write of an activation of that trigger is fulfilled, never at the click
\* and never when a write is rejected; a displayed confirmation has a
\* fulfilled write behind it, and after a single activation it is never
\* displayed while that activation's write is pending or has been rejected.
C25_ConfirmationOnlyAfterSuccess ==
    /\ [][ \A b \in BlockIds :
              /\ (label'[b] = codeCopied /\ label[b] # codeCopied) => WriteFulfilled(b)
              /\ (clicks'[b] # clicks[b] \/ rejected'[b] # rejected[b])
                    => label'[b] = label[b] ]_vars
    /\ [](\A b \in BlockIds :
              label[b] = codeCopied =>
                  /\ Fulfilled(b) >= 1
                  /\ clicks[b] = 1 => (writes[b] = 0 /\ rejected[b] = 0))

C25_Witness ==
    \E b \in BlockIds :
        /\ clicks[b] = 1 /\ label[b] = codeCopied
        /\ writes[b] = 0 /\ rejected[b] = 0

\* what of block c a step can reach: label, timers and writes made
TriggerState(c) == <<label[c], timers[c], clipLog[c], writes[c], clicks[c]>>

\* C26: once the triggers are in place, a step that activates the trigger
\* of a block, settles one of its writes or runs one of its timers leaves
\* label, timers and writes of every other block as they were; and every
\* write made for a block carries that block's text.
C26_TriggersIsolated ==
    /\ [][ scriptRun =>
              \A b, c \in BlockIds :
                  (b # c /\ TriggerState(b)' # TriggerState(b))
                      => TriggerState(c)' = TriggerState(c) ]_vars
    /\ [](\A b \in BlockIds : \A i \in DOMAIN clipLog[b] :
              /\ clipLog[b][i] = CodeText[b]
              /\ \A c \in BlockIds \ {b} : clipLog[b][i] # CodeText[c])

C26_Witness ==
    /\ clicks["b1"] = 1 /\ clicks["b2"] = 1
    /\ label["b1"] = codeCopied /\ timers["b1"] # {}
    /\ label["b2"] = copyIcon /\ timers["b2"] = {} /\ writes["b2"] = 1

\* C21: the og:image the layout emits is the site URL followed by the
\* page's ogImage; when it is emitted no image shortcode invocation of the
\* page is outstanding, and the field does not change afterwards.
C21_HeadReadsFinalOgImage ==
    /\ [](head.rendered =>
              /\ BagCardinality(pending) = 0
              /\ head.ogImage =
                    (IF ogImage.t = "string"
                     THEN "https://sanzeev.com.np" \o ogImage.s
                     ELSE "https://sanzeev.com.npundefined"))
    /\ [][ head.rendered => (ogImage' = ogImage /\ head' = head) ]_vars

C21_Witness ==
    /\ head.rendered
    /\ invocations = 2
    /\ head.ogImage = "https://sanzeev.com.np/img/b-1200.webp"
    /\ lastDone.library = "resolved"
    /\ lastDone.metadata.webp[1].url = "/img/b-1200.webp"

=============================================================================
